---- MODULE Spec2Model ----
(***************************************************************************)
(* Model of the websocket command handler of the LED goggles firmware      *)
(* (test/test_ws_event.cpp: wsEvent and its helpers) and of the hex colour *)
(* codec (src/utils.cpp: parseHexColor).                                   *)
(*                                                                         *)
(* A message is a TLA+ string; a character is a string of length 1 and is  *)
(* compared through its ASCII code, as the C++ code compares chars.        *)
(***************************************************************************)
EXTENDS Integers, Sequences, FiniteSets, TLC

VARIABLES presets, currentPreset, brightness, animInterval, applyCalls,
          msg, prior, steps, pc, trail, codec

data == <<presets, currentPreset, brightness, animInterval, applyCalls>>
vars == <<presets, currentPreset, brightness, animInterval, applyCalls,
          msg, prior, steps, pc, trail, codec>>

(***************************************************************************)
(* Bounds of the model and constants of the program.                       *)
(***************************************************************************)
\* number of messages delivered in one run
MaxSteps == 4
\* longest string of the exhaustive codec inputs
MaxHexLen == 7

\* constexpr size_t NUM_LEDS = 13
NUM_LEDS == 13
\* presets.assign(3, Preset())
NumPresets == 3
\* static uint8_t brightness = 255
InitBrightness == 255
\* static uint32_t animInterval = 50
InitAnimInterval == 50
\* largest value of int (32 bits), the range std::stoi accepts
INT_MAX == 2147483647
\* std::string::npos, the "not found" result of find and find_first_not_of
npos == -1

(***************************************************************************)
(* Characters and std::string operations.                                  *)
(***************************************************************************)
\* runs of consecutive ASCII characters, each with the code of its first
\* character: the characters that occur in the messages of the model
AsciiRuns ==
  { <<32, " ">>, <<35, "#">>, <<43, "+,-./0123456789:">>,
    <<64, "@ABCDEFGHIJKLMNOPQRSTUVWXYZ">>,
    <<97, "abcdefghijklmnopqrstuvwxyz">> }

AsciiTable ==
  LET pairs == UNION { { <<SubSeq(r[2], i, i), r[1] + i - 1>> : i \in 1..Len(r[2]) }
                       : r \in AsciiRuns }
  IN  [c \in {p[1] : p \in pairs} |-> (CHOOSE p \in pairs : p[1] = c)[2]]

\* the code of character c
Ord(c) == AsciiTable[c]

\* s.size(), s.empty()
ssize(s) == Len(s)
empty(s) == Len(s) = 0

\* s[i], 0-based
at(s, i) == SubSeq(s, i + 1, i + 1)

\* s.substr(pos): the suffix from 0-based position pos (pos <= size)
substr(s, pos) == SubSeq(s, pos + 1, Len(s))

\* s.substr(0, n): the first n characters
prefix(s, n) == SubSeq(s, 1, n)

\* s.erase(0, n): s without its first n characters
erase(s, n) == SubSeq(s, n + 1, Len(s))

\* s.rfind(p, 0) == 0: p occurs at position 0 of s
rfind0(s, p) == Len(s) >= Len(p) /\ SubSeq(s, 1, Len(p)) = p

\* s.find(ch): the first 0-based position of character ch, or npos
find(s, ch) ==
  LET hits == {i \in 0..(Len(s) - 1) : at(s, i) = ch}
  IN  IF hits = {} THEN npos
      ELSE CHOOSE i \in hits : \A j \in hits : i <= j

\* s.find_first_not_of(set): the first position whose character is not in
\* the string set, or npos
find_first_not_of(s, set) ==
  LET hits == {i \in 0..(Len(s) - 1) : find(set, at(s, i)) = npos}
  IN  IF hits = {} THEN npos
      ELSE CHOOSE i \in hits : \A j \in hits : i <= j

(***************************************************************************)
(* std::stoi on a string that begins with decimal digits: the value of     *)
(* the digits, or the exception it throws.  The value is accumulated with  *)
(* an overflow test, so that no intermediate exceeds INT_MAX.              *)
(***************************************************************************)
RECURSIVE stoiLoop(_, _, _)
stoiLoop(s, i, acc) ==
  IF i >= Len(s) \/ Ord(at(s, i)) < Ord("0") \/ Ord(at(s, i)) > Ord("9")
  THEN [thrown |-> "none", val |-> acc]
  ELSE LET d == Ord(at(s, i)) - Ord("0")
       IN  IF acc > (INT_MAX - d) \div 10
           THEN [thrown |-> "out_of_range", val |-> 0]
           ELSE stoiLoop(s, i + 1, acc * 10 + d)

stoi(s) ==
  IF empty(s) \/ Ord(at(s, 0)) < Ord("0") \/ Ord(at(s, 0)) > Ord("9")
  THEN [thrown |-> "invalid_argument", val |-> 0]
  ELSE stoiLoop(s, 0, 0)

(***************************************************************************)
(* The hex colour codec, src/utils.cpp.  A const char* is <<>> (nullptr)   *)
(* or <<s>>, a pointer to the characters of s followed by the terminator;  *)
(* hex[i] is the code of the character, 0 for the terminator.  The result  *)
(* is the returned bool and the caller's value after the call.             *)
(***************************************************************************)
nullptr == <<>>
c_str(s) == <<s>>

\* hex[i] for 0 <= i <= strlen(hex)
deref(hex, i) == IF i = Len(hex[1]) THEN 0 ELSE Ord(at(hex[1], i))

\* result <<= 4U on uint32_t; result < 2^20 whenever the loop shifts, so
\* the shift never drops a bit
shl4(result) == result * 16

\* result |= d for a digit d < 16, the low four bits of result being zero
or4(result, d) == result + d

\* variant: an upper-case digit is read as its offset from 'A'
RECURSIVE hexLoop_upper(_, _, _)
hexLoop_upper(hex, i, result) ==
  IF i >= 6 THEN [ok |-> TRUE, result |-> result]
  ELSE LET c == deref(hex, i)
           shifted == shl4(result)
       IN  IF c = 0 THEN [ok |-> FALSE, result |-> result]
           ELSE IF c >= Ord("0") /\ c <= Ord("9")
                THEN hexLoop_upper(hex, i + 1, or4(shifted, c - Ord("0")))
           ELSE IF c >= Ord("a") /\ c <= Ord("f")
                THEN hexLoop_upper(hex, i + 1, or4(shifted, c - Ord("a") + 10))
           ELSE IF c >= Ord("A") /\ c <= Ord("F")
                THEN hexLoop_upper(hex, i + 1, or4(shifted, c - Ord("A")))
           ELSE [ok |-> FALSE, result |-> shifted]

\* one round of the for loop, i = 0..5: [ok, result]
RECURSIVE hexLoop(_, _, _)
hexLoop(hex, i, result) ==
  IF i >= 6 THEN [ok |-> TRUE, result |-> result]
  ELSE LET c == deref(hex, i)
           shifted == shl4(result)
       IN  IF c = 0 THEN [ok |-> FALSE, result |-> result]
           ELSE IF c >= Ord("0") /\ c <= Ord("9")
                THEN hexLoop(hex, i + 1, or4(shifted, c - Ord("0")))
           ELSE IF c >= Ord("a") /\ c <= Ord("f")
                THEN hexLoop(hex, i + 1, or4(shifted, c - Ord("a") + 10))
           ELSE IF c >= Ord("A") /\ c <= Ord("F")
                THEN hexLoop(hex, i + 1, or4(shifted, c - Ord("A") + 10))
           ELSE [ok |-> FALSE, result |-> shifted]

\* variant: the character after the sixth digit is not looked at
parseHexColor_noEnd(hex, value) ==
  IF hex = nullptr THEN [ret |-> FALSE, value |-> value]
  ELSE LET r == hexLoop(hex, 0, 0)
       IN  IF ~r.ok THEN [ret |-> FALSE, value |-> value]
           ELSE [ret |-> TRUE, value |-> r.result]

\* bool parseHexColor(const char *hex, uint32_t &value)
parseHexColor(hex, value) ==
  IF hex = nullptr THEN [ret |-> FALSE, value |-> value]
  ELSE LET r == hexLoop(hex, 0, 0)
       IN  IF ~r.ok THEN [ret |-> FALSE, value |-> value]
           ELSE IF deref(hex, 6) # 0 THEN [ret |-> FALSE, value |-> value]
           ELSE [ret |-> TRUE, value |-> r.result]

(***************************************************************************)
(* The String/CRGB codec, src/utils.h.  A String is a TLA+ string, a CRGB  *)
(* the record of its bytes r, g, b.                                        *)
(***************************************************************************)
\* isxdigit(c) for the code c of a character
isxdigit(c) ==
  \/ c >= Ord("0") /\ c <= Ord("9")
  \/ c >= Ord("a") /\ c <= Ord("f")
  \/ c >= Ord("A") /\ c <= Ord("F")

\* strtol(hex, nullptr, 16) on a string of hex digits: the digits read so
\* far give acc
RECURSIVE strtol16(_, _, _)
strtol16(hex, i, acc) ==
  IF i >= Len(hex) \/ ~isxdigit(Ord(at(hex, i))) THEN acc
  ELSE LET c == Ord(at(hex, i))
           d == IF c <= Ord("9") THEN c - Ord("0")
                ELSE IF c >= Ord("a") THEN c - Ord("a") + 10
                ELSE c - Ord("A") + 10
       IN  strtol16(hex, i + 1, acc * 16 + d)

\* CRGB(r, g, b)
CRGB(r, g, b) == [r |-> r, g |-> g, b |-> b]

\* variant: the first character is not compared with '#'
parseHexColorString_anyFirst(input, out) ==
  IF Len(input) # 7 THEN [ret |-> FALSE, out |-> out]
  ELSE LET hex == substr(input, 1)
       IN  IF \E i \in 0..(Len(hex) - 1) : ~isxdigit(Ord(at(hex, i)))
           THEN [ret |-> FALSE, out |-> out]
           ELSE LET val == strtol16(hex, 0, 0)
                IN  [ret |-> TRUE,
                     out |-> CRGB((val \div 65536) % 256, (val \div 256) % 256,
                                  val % 256)]

\* bool parseHexColor(const String &input, CRGB &out): the returned bool and
\* the caller's out after the call
parseHexColorString(input, out) ==
  IF Len(input) # 7 \/ at(input, 0) # "#" THEN [ret |-> FALSE, out |-> out]
  ELSE LET hex == substr(input, 1)
       IN  IF \E i \in 0..(Len(hex) - 1) : ~isxdigit(Ord(at(hex, i)))
           THEN [ret |-> FALSE, out |-> out]
           ELSE LET val == strtol16(hex, 0, 0)
                IN  [ret |-> TRUE,
                     out |-> CRGB((val \div 65536) % 256, (val \div 256) % 256,
                                  val % 256)]

(***************************************************************************)
(* size_t arithmetic.  A size_t is a sequence of SizeTLimbs 16-bit limbs,  *)
(* least significant first, so that sums wrap modulo 2^(16 * SizeTLimbs).  *)
(***************************************************************************)
LimbBase == 65536
\* sizeof(size_t) / 2
SizeTLimbs == 4

\* limb k (1-based) of a non-negative int
limbOf(v, k) == IF k = 1 THEN v % LimbBase
                ELSE IF k = 2 THEN v \div LimbBase
                ELSE 0

\* conversion of an int to size_t: v modulo 2^w
toSizeT(v) ==
  IF v >= 0 THEN [k \in 1..SizeTLimbs |-> limbOf(v, k)]
  ELSE [k \in 1..SizeTLimbs |-> (LimbBase - 1) - limbOf(-v - 1, k)]

RECURSIVE addCarry(_, _, _, _)
addCarry(a, b, k, carry) ==
  IF k > SizeTLimbs THEN <<>>
  ELSE LET t == a[k] + b[k] + carry
       IN  <<t % LimbBase>> \o addCarry(a, b, k + 1, t \div LimbBase)

\* a + b on size_t
addSizeT(a, b) == addCarry(a, b, 1, 0)

RECURSIVE modFrom(_, _, _, _)
modFrom(a, n, k, r) ==
  IF k < 1 THEN r ELSE modFrom(a, n, k - 1, (r * LimbBase + a[k]) % n)

\* a % n on size_t, for 0 < n < 2^15; the result fits an int
modSizeT(a, n) == modFrom(a, n, SizeTLimbs, 0)

(***************************************************************************)
(* The controller state.                                                   *)
(***************************************************************************)
\* v.size() of a vector, a function on 0..n-1
size(v) == Cardinality(DOMAIN v)

\* Preset() : color(0), leds(NUM_LEDS, 0)
Preset == [color |-> 0, leds |-> [i \in 0..(NUM_LEDS - 1) |-> 0]]

\* no call of the colour codec has been made
CodecIdle == [fn |-> "none"]

\* the globals as a message handler finds them
Snapshot == [presets |-> presets, currentPreset |-> currentPreset,
             brightness |-> brightness, animInterval |-> animInterval,
             applyCalls |-> applyCalls]

\* setUp(): the state every run starts from
Init ==
  /\ presets = [i \in 0..(NumPresets - 1) |-> Preset]
  /\ currentPreset = 0
  /\ brightness = InitBrightness
  /\ animInterval = InitAnimInterval
  /\ applyCalls = 0
  /\ msg = ""
  /\ prior = [presets |-> [i \in 0..(NumPresets - 1) |-> Preset],
              currentPreset |-> 0, brightness |-> InitBrightness,
              animInterval |-> InitAnimInterval, applyCalls |-> 0]
  /\ steps = 0
  /\ pc = "running"
  /\ trail = <<>>
  /\ codec = CodecIdle

\* applyPreset(): one more notification (applyCalled = true)
applyPreset == applyCalls' = applyCalls + 1
applyCalled == applyCalls > 0

\* nextPreset() stopping at the last preset instead of wrapping
nextPreset_clamped ==
  currentPreset' =
    IF currentPreset + 1 < size(presets) THEN currentPreset + 1
    ELSE currentPreset

\* nextPreset()
nextPreset ==
  currentPreset' = modSizeT(toSizeT(currentPreset + 1), size(presets))

\* previousPreset() with the remainder taken in int arithmetic, where the
\* remainder of a negative dividend is negative
previousPreset_signed ==
  currentPreset' =
    IF currentPreset - 1 < 0 THEN -((1 - currentPreset) % size(presets))
    ELSE (currentPreset - 1) % size(presets)

\* previousPreset() without "+ presets.size()": the int -1 converted to
\* size_t, then the remainder
previousPreset_noAdd ==
  currentPreset' = modSizeT(toSizeT(currentPreset - 1), size(presets))

\* previousPreset()
previousPreset ==
  currentPreset' =
    modSizeT(addSizeT(toSizeT(currentPreset - 1), toSizeT(size(presets))),
             size(presets))

\* wsEvent returns
return == pc' = "running"
\* an exception leaves wsEvent and nothing catches it: std::terminate
terminate == pc' = "terminated"

(***************************************************************************)
(* The messages a run draws from.                                          *)
(***************************************************************************)
\* k copies of token tok, separated by commas
RECURSIVE tokens(_, _)
tokens(tok, k) == IF k <= 1 THEN tok ELSE tok \o "," \o tokens(tok, k - 1)

NavMessages == {"next", "prev"}
UnknownMessages == {"", "foobar", "NEXT", "nextx", "next ", "prev:1", "set"}
SetMessages ==
  {"set:0", "set:1", "set:2", "set:02", "set:3", "set:5", "set:", "set:abc",
   "set:-1", "set:+1", "set:1x", "set: 1", "set:2147483647",
   "set:2147483648", "set:99999999999"}
BrightMessages ==
  {"bright:0", "bright:128", "bright:255", "bright:0255", "bright:256",
   "bright:300", "bright:", "bright:abc", "bright:-1", "bright:12a",
   "bright:2147483647", "bright:99999999999"}
SpeedMessages ==
  {"speed:1", "speed:123", "speed:0123", "speed:0", "speed:000", "speed:",
   "speed:abc", "speed:-5", "speed:2147483647", "speed:2147483648", "speed:99999999999"}
ColorMessages ==
  {"color:#112233", "color:#aBcDeF", "color:#ABCDEF", "color:#abcdef",
   "color:112233", "color:#12345", "color:#1234567", "color:1122334",
   "color:#gg0000", "color:#11223g", "color:", "color:#", "color:#12 456"}
LedsMessages ==
  {"leds:#010203,#a0b0c0,#ffffff", "leds:#010203,a0b0c0,#ffffff,",
   "leds:FFFFFF", "leds:" \o tokens("#0a0B0c", NUM_LEDS),
   "leds:" \o tokens("#0a0B0c", NUM_LEDS + 1),
   "leds:" \o tokens("#0a0B0c", NUM_LEDS) \o ",",
   "leds:", "leds:,", "leds:#zzzzzz", "leds:#010203,#zzzzzz",
   "leds:#010203,,#a0b0c0", "leds:#010203,#a0b0c0,#fffff",
   "leds:##010203", "leds:#010203,#a0b0c0,#ffffff,,"}

Messages ==
  NavMessages \cup UnknownMessages \cup SetMessages \cup BrightMessages
    \cup SpeedMessages \cup ColorMessages \cup LedsMessages

(***************************************************************************)
(* The library and codec calls of wsEvent depend on the message alone, so  *)
(* their results are tabulated once over the arguments the messages give   *)
(* rise to (msg.substr(4) .. msg.substr(7)) and looked up by the branches. *)
(***************************************************************************)
ArgStrings ==
  UNION { {substr(m, k) : m \in {x \in Messages : Len(x) >= k}} : k \in 4..7 }

\* !s.empty() && s.find_first_not_of("0123456789") == std::string::npos
digitsOnly ==
  [s \in ArgStrings |->
     ~empty(s) /\ find_first_not_of(s, "0123456789") = npos] @@ <<>>

\* std::stoi(s)
stoiOf == [s \in ArgStrings |-> stoi(s)] @@ <<>>

\* colorStr.erase(0, 1); parseHexColor(colorStr.c_str(), val).  The local
\* val is uninitialised and is read only after parseHexColor returned true,
\* which assigned it.
colorOf ==
  [s \in ArgStrings |-> parseHexColor(c_str(erase(s, 1)), 0)] @@ <<>>

(***************************************************************************)
(* The branches of wsEvent, one per command keyword; m is the message.     *)
(***************************************************************************)
\* static_cast<uint8_t>(val)
u8(val) == val % 256
\* static_cast<uint32_t>(val) of an int val > 0: the value itself
u32(val) == val

\* the set: branch skipping the notification when the index does not change
wsSet_skipSame(m) ==
  LET idxStr == substr(m, 4)
  IN  IF digitsOnly[idxStr]
      THEN LET r == stoiOf[idxStr]
               idx == r.val
           IN  IF r.thrown # "none"
               THEN terminate /\ UNCHANGED data
               ELSE IF idx >= 0 /\ idx < size(presets) /\ idx # currentPreset
                    THEN /\ currentPreset' = idx
                         /\ applyPreset
                         /\ return
                         /\ UNCHANGED <<presets, brightness, animInterval>>
                    ELSE return /\ UNCHANGED data
      ELSE return /\ UNCHANGED data

\* the set: branch moving by the index instead of to it
wsSet_relative(m) ==
  LET idxStr == substr(m, 4)
  IN  IF digitsOnly[idxStr]
      THEN LET r == stoiOf[idxStr]
               idx == r.val
           IN  IF r.thrown # "none"
               THEN terminate /\ UNCHANGED data
               ELSE IF idx >= 0 /\ idx < size(presets)
                    THEN /\ currentPreset' = (currentPreset + idx) % size(presets)
                         /\ applyPreset
                         /\ return
                         /\ UNCHANGED <<presets, brightness, animInterval>>
                    ELSE return /\ UNCHANGED data
      ELSE return /\ UNCHANGED data

\* msg.rfind("set:", 0) == 0
wsSet(m) ==
  LET idxStr == substr(m, 4)
  IN  IF digitsOnly[idxStr]
      THEN LET r == stoiOf[idxStr]
               idx == r.val
           IN  IF r.thrown # "none"
               THEN terminate /\ UNCHANGED data
               ELSE IF idx >= 0 /\ idx < size(presets)
                    THEN /\ currentPreset' = idx
                         /\ applyPreset
                         /\ return
                         /\ UNCHANGED <<presets, brightness, animInterval>>
                    ELSE return /\ UNCHANGED data
      ELSE return /\ UNCHANGED data

\* the bright: branch without the upper bound of the range test
wsBright_noUpper(m) ==
  LET valStr == substr(m, 7)
  IN  IF digitsOnly[valStr]
      THEN LET r == stoiOf[valStr]
               val == r.val
           IN  IF r.thrown # "none"
               THEN terminate /\ UNCHANGED data
               ELSE IF val >= 0
                    THEN /\ brightness' = u8(val)
                         /\ applyPreset
                         /\ return
                         /\ UNCHANGED <<presets, currentPreset, animInterval>>
                    ELSE return /\ UNCHANGED data
      ELSE return /\ UNCHANGED data

\* msg.rfind("bright:", 0) == 0
wsBright(m) ==
  LET valStr == substr(m, 7)
  IN  IF digitsOnly[valStr]
      THEN LET r == stoiOf[valStr]
               val == r.val
           IN  IF r.thrown # "none"
               THEN terminate /\ UNCHANGED data
               ELSE IF val >= 0 /\ val <= 255
                    THEN /\ brightness' = u8(val)
                         /\ applyPreset
                         /\ return
                         /\ UNCHANGED <<presets, currentPreset, animInterval>>
                    ELSE return /\ UNCHANGED data
      ELSE return /\ UNCHANGED data

\* the color: branch writing the first preset instead of the current one
wsColor_first(m) ==
  LET colorStr == substr(m, 6)
  IN  IF ssize(colorStr) = 7 /\ at(colorStr, 0) = "#"
      THEN LET r == colorOf[colorStr]
           IN  IF r.ret
               THEN /\ presets' = [presets EXCEPT ![0].color = r.value]
                    /\ applyPreset
                    /\ return
                    /\ UNCHANGED <<currentPreset, brightness, animInterval>>
               ELSE return /\ UNCHANGED data
      ELSE return /\ UNCHANGED data

\* the color: branch painting the pixels of the preset as well
wsColor_fill(m) ==
  LET colorStr == substr(m, 6)
  IN  IF ssize(colorStr) = 7 /\ at(colorStr, 0) = "#"
      THEN LET r == colorOf[colorStr]
           IN  IF r.ret
               THEN /\ presets' = [presets EXCEPT
                                     ![currentPreset] =
                                        [color |-> r.value,
                                         leds |-> [i \in 0..(NUM_LEDS - 1) |-> r.value]]]
                    /\ applyPreset
                    /\ return
                    /\ UNCHANGED <<currentPreset, brightness, animInterval>>
               ELSE return /\ UNCHANGED data
      ELSE return /\ UNCHANGED data

\* msg.rfind("color:", 0) == 0
wsColor(m) ==
  LET colorStr == substr(m, 6)
  IN  IF ssize(colorStr) = 7 /\ at(colorStr, 0) = "#"
      THEN LET r == colorOf[colorStr]
           IN  IF r.ret
               THEN /\ presets' = [presets EXCEPT ![currentPreset].color = r.value]
                    /\ applyPreset
                    /\ return
                    /\ UNCHANGED <<currentPreset, brightness, animInterval>>
               ELSE return /\ UNCHANGED data
      ELSE return /\ UNCHANGED data

\* the speed: branch accepting zero (val >= 0)
wsSpeed_zero(m) ==
  LET valStr == substr(m, 6)
  IN  IF digitsOnly[valStr]
      THEN LET r == stoiOf[valStr]
               val == r.val
           IN  IF r.thrown # "none"
               THEN terminate /\ UNCHANGED data
               ELSE IF val >= 0
                    THEN /\ animInterval' = u32(val)
                         /\ return
                         /\ UNCHANGED <<presets, currentPreset, brightness,
                                        applyCalls>>
                    ELSE return /\ UNCHANGED data
      ELSE return /\ UNCHANGED data

\* the speed: branch storing one less than the value read
wsSpeed_lessOne(m) ==
  LET valStr == substr(m, 6)
  IN  IF digitsOnly[valStr]
      THEN LET r == stoiOf[valStr]
               val == r.val
           IN  IF r.thrown # "none"
               THEN terminate /\ UNCHANGED data
               ELSE IF val > 0
                    THEN /\ animInterval' = u32(val - 1)
                         /\ return
                         /\ UNCHANGED <<presets, currentPreset, brightness,
                                        applyCalls>>
                    ELSE return /\ UNCHANGED data
      ELSE return /\ UNCHANGED data

\* msg.rfind("speed:", 0) == 0
wsSpeed(m) ==
  LET valStr == substr(m, 6)
  IN  IF digitsOnly[valStr]
      THEN LET r == stoiOf[valStr]
               val == r.val
           IN  IF r.thrown # "none"
               THEN terminate /\ UNCHANGED data
               ELSE IF val > 0
                    THEN /\ animInterval' = u32(val)
                         /\ return
                         /\ UNCHANGED <<presets, currentPreset, brightness,
                                        applyCalls>>
                    ELSE return /\ UNCHANGED data
      ELSE return /\ UNCHANGED data

\* the while loop of the leds: branch: the values of valid, data and temp
\* when the loop is left
RECURSIVE ledsLoop(_, _, _)
ledsLoop(ldata, temp, idx) ==
  IF ~(idx < NUM_LEDS /\ ~empty(ldata))
  THEN [valid |-> TRUE, data |-> ldata, temp |-> temp]
  ELSE LET sep == find(ldata, ",")
           tok0 == IF sep = npos THEN ldata ELSE prefix(ldata, sep)
           tok == IF ~empty(tok0) /\ at(tok0, 0) = "#" THEN erase(tok0, 1)
                  ELSE tok0
           r == parseHexColor(c_str(tok), 0)
       IN  IF r.ret
           THEN ledsLoop(IF sep = npos THEN "" ELSE erase(ldata, sep + 1),
                         [temp EXCEPT ![idx] = r.value], idx + 1)
           ELSE [valid |-> FALSE, data |-> ldata, temp |-> temp]

\* std::vector<uint32_t> temp(NUM_LEDS, 0); size_t idx = 0; the loop
ledsOf ==
  [s \in ArgStrings |->
     ledsLoop(s, [i \in 0..(NUM_LEDS - 1) |-> 0], 0)] @@ <<>>

\* the leds: branch committing the scratch buffer although a token failed
wsLeds_partial(m) ==
  LET r == ledsOf[substr(m, 5)]
  IN  IF empty(r.data) \/ ~r.valid
      THEN /\ presets' = [presets EXCEPT ![currentPreset].leds = r.temp]
           /\ applyPreset
           /\ return
           /\ UNCHANGED <<currentPreset, brightness, animInterval>>
      ELSE return /\ UNCHANGED data

\* the leds: branch parsing into the preset's own pixels, so that the
\* pixels after the last token keep their values
wsLeds_keep(m) ==
  LET r == ledsLoop(substr(m, 5), presets[currentPreset].leds, 0)
  IN  IF r.valid /\ empty(r.data)
      THEN /\ presets' = [presets EXCEPT ![currentPreset].leds = r.temp]
           /\ applyPreset
           /\ return
           /\ UNCHANGED <<currentPreset, brightness, animInterval>>
      ELSE return /\ UNCHANGED data

\* the leds: branch committing the first NUM_LEDS tokens of a longer list
wsLeds_truncate(m) ==
  LET r == ledsOf[substr(m, 5)]
  IN  IF r.valid
      THEN /\ presets' = [presets EXCEPT ![currentPreset].leds = r.temp]
           /\ applyPreset
           /\ return
           /\ UNCHANGED <<currentPreset, brightness, animInterval>>
      ELSE return /\ UNCHANGED data

\* msg.rfind("leds:", 0) == 0
wsLeds(m) ==
  LET r == ledsOf[substr(m, 5)]
  IN  IF r.valid /\ empty(r.data)
      THEN /\ presets' = [presets EXCEPT ![currentPreset].leds = r.temp]
           /\ applyPreset
           /\ return
           /\ UNCHANGED <<currentPreset, brightness, animInterval>>
      ELSE return /\ UNCHANGED data

(***************************************************************************)
(* wsEvent(num, type, payload, len): one message handled from start to     *)
(* end.  msg, prior and steps record the message, the globals it found     *)
(* and the number of messages handled.                                     *)
(***************************************************************************)
WStype_t == {"WStype_TEXT"}

wsEvent(type, payload) ==
  /\ pc = "running"
  /\ steps < MaxSteps
  /\ steps' = steps + 1
  /\ msg' = payload
  /\ prior' = Snapshot
  /\ IF type # "WStype_TEXT" THEN return /\ UNCHANGED data
     ELSE IF payload = "next"
          THEN /\ nextPreset
               /\ return
               /\ UNCHANGED <<presets, brightness, animInterval, applyCalls>>
     ELSE IF payload = "prev"
          THEN /\ previousPreset
               /\ return
               /\ UNCHANGED <<presets, brightness, animInterval, applyCalls>>
     ELSE IF rfind0(payload, "set:") THEN wsSet(payload)
     ELSE IF rfind0(payload, "bright:") THEN wsBright(payload)
     ELSE IF rfind0(payload, "color:") THEN wsColor(payload)
     ELSE IF rfind0(payload, "speed:") THEN wsSpeed(payload)
     ELSE IF rfind0(payload, "leds:") THEN wsLeds(payload)
     ELSE return /\ UNCHANGED data

Next ==
  \E type \in WStype_t, payload \in Messages :
    wsEvent(type, payload) /\ UNCHANGED <<trail, codec>>

Spec == Init /\ [][Next]_vars

(***************************************************************************)
(* The second copy of the handler, test/test_wsEvent.cpp: it knows next,   *)
(* prev, set: and bright: only, and its nextPreset and previousPreset      *)
(* call applyPreset themselves.                                            *)
(***************************************************************************)
\* nextPreset() of test_wsEvent.cpp
nextPresetB ==
  /\ currentPreset' = modSizeT(toSizeT(currentPreset + 1), size(presets))
  /\ applyPreset

\* previousPreset() of test_wsEvent.cpp
previousPresetB ==
  /\ currentPreset' =
       modSizeT(addSizeT(toSizeT(currentPreset - 1), toSizeT(size(presets))),
                size(presets))
  /\ applyPreset

\* wsEvent(num, type, payload, len) of test_wsEvent.cpp
wsEventB(type, payload) ==
  /\ pc = "running"
  /\ steps < MaxSteps
  /\ steps' = steps + 1
  /\ msg' = payload
  /\ prior' = Snapshot
  /\ IF type # "WStype_TEXT" THEN return /\ UNCHANGED data
     ELSE IF payload = "next"
          THEN nextPresetB /\ return /\ UNCHANGED <<presets, brightness, animInterval>>
     ELSE IF payload = "prev"
          THEN previousPresetB /\ return /\ UNCHANGED <<presets, brightness, animInterval>>
     ELSE IF rfind0(payload, "set:") THEN wsSet(payload)
     ELSE IF rfind0(payload, "bright:") THEN wsBright(payload)
     ELSE return /\ UNCHANGED data

NextB ==
  \E type \in WStype_t, payload \in Messages :
    wsEventB(type, payload) /\ UNCHANGED <<trail, codec>>

SpecB == Init /\ [][NextB]_vars

(***************************************************************************)
(* Runs that keep their history: trail lists, for every message handled,   *)
(* the message and the index that was current when it arrived.  The        *)
(* messages are one or two of every command, and one that is ignored.      *)
(***************************************************************************)
TrailMessages ==
  {"next", "prev", "set:1", "bright:128", "color:#112233", "color:#aBcDeF",
   "speed:123", "leds:#010203,#a0b0c0,#ffffff", "leds:FFFFFF", "leds:",
   "leds:#010203,#zzzzzz", "foobar", "set:5", "bright:300"}

NextTrail ==
  \E type \in WStype_t, payload \in TrailMessages :
    /\ wsEvent(type, payload)
    /\ trail' = Append(trail, [msg |-> payload, index |-> currentPreset])
    /\ UNCHANGED codec

SpecTrail == Init /\ [][NextTrail]_vars

(***************************************************************************)
(* Calls of the two codecs on their own.  The inputs are all strings of    *)
(* up to MaxHexLen characters over a digit, a lower-case and an upper-case *)
(* hex digit and a letter that is none, with or without a leading '#', the *)
(* inputs of the unit tests, and strings with the characters next to the   *)
(* ranges 0-9, a-f and A-F.                                                *)
(***************************************************************************)
CodecAlphabet == {"0", "a", "F", "g"}

\* the string of the characters f[i], f[i+1], ...
RECURSIVE Join(_, _)
Join(f, i) == IF i > Len(f) THEN "" ELSE f[i] \o Join(f, i + 1)

\* the inputs of the unit tests and the characters next to the ranges
CodecTests ==
  {"ff00ff", "FF00FF", "fff", "gg0000", "FF00FG", "#1A2B3C", "123456",
   "#12345", "#ZZZZZZ", "09afAF", "#09afAF", "7b8C9d", "#7b8C9d", "/00000",
   "00000:", "@00000", "00000G", "G00000", "00 000", "#00000:", "#@00000",
   "#0000G0"}

\* what the caller's variable holds before the call: zero, or 2^24, which
\* the codec never stores
CallerValues == {0, 256 * 65536}
CallerColors == {CRGB(0, 0, 0)}

\* the test calls parseHexColor(hex, value) of utils.cpp
callParseHexColor(hex, value) ==
  /\ codec.fn = "none"
  /\ codec' = [fn |-> "cstr", arg |-> hex, before |-> value,
               ret |-> parseHexColor(hex, value).ret,
               value |-> parseHexColor(hex, value).value]
  /\ UNCHANGED <<data, msg, prior, steps, pc, trail>>

\* the test calls parseHexColor(input, out) of utils.h
callParseHexColorString(input, out) ==
  /\ codec.fn = "none"
  /\ codec' = [fn |-> "String", arg |-> input, before |-> out,
               ret |-> parseHexColorString(input, out).ret,
               out |-> parseHexColorString(input, out).out]
  /\ UNCHANGED <<data, msg, prior, steps, pc, trail>>

\* one call in a run
NextCodec ==
  /\ codec.fn = "none"
  /\ \/ \E p \in {"", "#"}, n \in 0..MaxHexLen, value \in CallerValues :
           \E f \in [1..n -> CodecAlphabet] :
              callParseHexColor(c_str(p \o Join(f, 1)), value)
     \/ \E hex \in {nullptr} \cup {c_str(s) : s \in CodecTests},
           value \in CallerValues : callParseHexColor(hex, value)
     \/ \E p \in {"", "#"}, n \in 0..MaxHexLen, out \in CallerColors :
           \E f \in [1..n -> CodecAlphabet] :
              callParseHexColorString(p \o Join(f, 1), out)
     \/ \E input \in CodecTests, out \in CallerColors :
           callParseHexColorString(input, out)

SpecCodec == Init /\ [][NextCodec]_vars

\* the types of the variables
TypeOK ==
  /\ DOMAIN presets = 0..(NumPresets - 1)
  /\ \A p \in DOMAIN presets :
       /\ presets[p].color \in 0..16777215
       /\ DOMAIN presets[p].leds = 0..(NUM_LEDS - 1)
       /\ \A i \in DOMAIN presets[p].leds : presets[p].leds[i] \in 0..16777215
  /\ currentPreset \in Int
  /\ brightness \in 0..255
  /\ animInterval \in 0..INT_MAX
  /\ applyCalls \in 0..MaxSteps
  /\ msg \in Messages
  /\ steps \in 0..MaxSteps
  /\ pc \in {"running", "terminated"}

(***************************************************************************)
(* Vocabulary of the properties.  Messages are read here by their text:    *)
(* numerals by their canonical decimal form, colours by byte pairs.        *)
(***************************************************************************)
DigitChars == {"0", "1", "2", "3", "4", "5", "6", "7", "8", "9"}
HexLower == "0123456789abcdef"
HexUpper == "0123456789ABCDEF"

\* m begins with keyword kw; the argument that follows it
HasKeyword(m, kw) == Len(m) >= Len(kw) /\ SubSeq(m, 1, Len(kw)) = kw
Arg(m, kw) == SubSeq(m, Len(kw) + 1, Len(m))

\* a non-empty string of decimal digits
AllDigits(s) == Len(s) > 0 /\ \A i \in 1..Len(s) : SubSeq(s, i, i) \in DigitChars

\* s without its leading zeros (the last digit always stays)
RECURSIVE Canon(_)
Canon(s) ==
  IF Len(s) > 1 /\ SubSeq(s, 1, 1) = "0" THEN Canon(SubSeq(s, 2, Len(s))) ELSE s

\* the decimal numeral of n >= 0
RECURSIVE ToDecimal(_)
ToDecimal(n) ==
  IF n < 10 THEN SubSeq("0123456789", n + 1, n + 1)
  ELSE ToDecimal(n \div 10) \o SubSeq("0123456789", (n % 10) + 1, (n % 10) + 1)

\* digit string d denotes the number n
HasValue(d, n) == AllDigits(d) /\ Canon(d) = ToDecimal(n)
\* digit string d denotes a number of lo..hi
ValueIn(d, lo, hi) == \E n \in lo..hi : HasValue(d, n)

\* a hex digit of either case, and its value
IsHexChar(c) ==
  \E v \in 1..16 : SubSeq(HexLower, v, v) = c \/ SubSeq(HexUpper, v, v) = c
HexDigit(c) ==
  (CHOOSE v \in 1..16 : SubSeq(HexLower, v, v) = c \/ SubSeq(HexUpper, v, v) = c) - 1

\* exactly six hex digits; the 24-bit value 0xRRGGBB they denote
IsHex6(h) == Len(h) = 6 /\ \A i \in 1..6 : IsHexChar(SubSeq(h, i, i))
HexByte(h, i) == 16 * HexDigit(SubSeq(h, i, i)) + HexDigit(SubSeq(h, i + 1, i + 1))
HexValue(h) == 65536 * HexByte(h, 1) + 256 * HexByte(h, 3) + HexByte(h, 5)

\* the pieces of s between its commas, in order
RECURSIVE Split(_)
Split(s) ==
  LET commas == {i \in 1..Len(s) : SubSeq(s, i, i) = ","}
  IN  IF commas = {} THEN <<s>>
      ELSE LET c == CHOOSE i \in commas : \A j \in commas : i <= j
           IN  <<SubSeq(s, 1, c - 1)>> \o Split(SubSeq(s, c + 1, Len(s)))

\* a colour token of a leds: list: an optional '#', then six hex digits
TokenHex(t) == IF Len(t) > 0 /\ SubSeq(t, 1, 1) = "#" THEN SubSeq(t, 2, Len(t)) ELSE t
ValidToken(t) == IsHex6(TokenHex(t))

\* the handler left every global as it found it / notified k times
SameState ==
  /\ presets = prior.presets
  /\ currentPreset = prior.currentPreset
  /\ brightness = prior.brightness
  /\ animInterval = prior.animInterval
Notified(k) == applyCalls = prior.applyCalls + k
Handled == steps > 0

(***************************************************************************)
(* C1                                                                      *)
(***************************************************************************)
\* C1: after any sequence of messages the number of presets is still N and
\* 0 <= currentPreset < N.
C1_IndexValid ==
  /\ size(presets) = NumPresets
  /\ DOMAIN presets = 0..(NumPresets - 1)
  /\ currentPreset >= 0
  /\ currentPreset < NumPresets

\* "prev" at index 0, after earlier messages, wrapped to the last preset
C1_Witness ==
  /\ steps = MaxSteps
  /\ msg = "prev"
  /\ prior.currentPreset = 0
  /\ currentPreset = NumPresets - 1

(***************************************************************************)
(* C2                                                                      *)
(***************************************************************************)
\* the messages C2 calls rejected
C2_Rejected(m) ==
  \/ /\ HasKeyword(m, "set:")
     /\ ~ValueIn(Arg(m, "set:"), 0, NumPresets - 1)
  \/ /\ HasKeyword(m, "bright:")
     /\ ~ValueIn(Arg(m, "bright:"), 0, 255)
  \/ /\ HasKeyword(m, "speed:")
     /\ (~AllDigits(Arg(m, "speed:")) \/ Canon(Arg(m, "speed:")) = "0")
  \/ /\ HasKeyword(m, "color:")
     /\ ~(/\ Len(Arg(m, "color:")) = 7
          /\ SubSeq(Arg(m, "color:"), 1, 1) = "#"
          /\ IsHex6(SubSeq(Arg(m, "color:"), 2, 7)))
  \/ /\ m \notin {"next", "prev"}
     /\ \A kw \in {"set:", "bright:", "speed:", "color:", "leds:"} :
          ~HasKeyword(m, kw)

C2_RejectedMessages == {m \in Messages : C2_Rejected(m)}

\* C2: a rejected message (bad set:, bright:, speed: or color: argument, or
\* an unrecognized keyword) leaves currentPreset, brightness, animInterval
\* and every preset as they were and fires no notification.
C2_RejectedUnchanged ==
  (Handled /\ msg \in C2_RejectedMessages) => (SameState /\ Notified(0))

\* set:5 rejected after the index, a colour and the brightness had changed
C2_Witness ==
  /\ msg = "set:5"
  /\ prior.currentPreset = 1
  /\ prior.brightness = 128
  /\ prior.presets[1].color # 0
  /\ pc = "running"

(***************************************************************************)
(* C3                                                                      *)
(***************************************************************************)
\* the tokens of a leds: argument: the pieces between the commas, where an
\* empty argument holds no token and a final comma ends the last token
C3_Tokens(a) ==
  IF a = "" THEN <<>>
  ELSE LET p == Split(a)
       IN  IF p[Len(p)] = "" THEN SubSeq(p, 1, Len(p) - 1) ELSE p

\* the leds: messages with a token that is no colour
C3_BadLists ==
  {m \in Messages :
     /\ HasKeyword(m, "leds:")
     /\ \E i \in 1..Len(C3_Tokens(Arg(m, "leds:"))) :
          ~ValidToken(C3_Tokens(Arg(m, "leds:"))[i])}

\* C3: a leds: message with any token that fails to parse as a colour, first
\* or later, leaves every pixel of every preset and all other state as it
\* was, and fires no notification.
C3_LedsAllOrNothing ==
  (Handled /\ msg \in C3_BadLists) => (SameState /\ Notified(0))

\* a bad token after a good one, on a preset whose pixels had been set
C3_Witness ==
  /\ msg = "leds:#010203,#zzzzzz"
  /\ prior.presets[prior.currentPreset].leds[0] # 0
  /\ prior.presets[prior.currentPreset].leds[0] # HexValue("010203")
  /\ presets = prior.presets

(***************************************************************************)
(* C4                                                                      *)
(***************************************************************************)
\* C4: wsEvent returns normally for every text message, digit arguments
\* beyond the range of int included.
C4_Total == pc = "running"

(***************************************************************************)
(* C5                                                                      *)
(***************************************************************************)
\* C5: handling "next" or "prev" fires the notification exactly once.
C5_NavNotifiesOnce ==
  (Handled /\ msg \in {"next", "prev"}) => Notified(1)

(***************************************************************************)
(* C6                                                                      *)
(***************************************************************************)
\* the set: messages whose digits denote an index n, 0 <= n < N, and that n
C6_Selecting ==
  {m \in Messages :
     HasKeyword(m, "set:") /\ ValueIn(Arg(m, "set:"), 0, NumPresets - 1)}
C6_IndexOf ==
  [m \in C6_Selecting |->
     CHOOSE n \in 0..(NumPresets - 1) : HasValue(Arg(m, "set:"), n)] @@ <<>>

\* C6: "set:<d>", d a digit string with value n, 0 <= n < N, sets
\* currentPreset to n and notifies exactly once, from any prior index.
C6_SetSelects ==
  (Handled /\ msg \in C6_Selecting)
    => (currentPreset = C6_IndexOf[msg] /\ Notified(1))

\* set:1 handled while preset 1 is already current
C6_Witness ==
  /\ msg = "set:1"
  /\ prior.currentPreset = 1
  /\ currentPreset = 1
  /\ Notified(1)

(***************************************************************************)
(* C7                                                                      *)
(***************************************************************************)
\* the bright: messages with a digit argument: those of value 0..255 with
\* that value, and those of value 256 or more
C7_Digits ==
  {m \in Messages : HasKeyword(m, "bright:") /\ AllDigits(Arg(m, "bright:"))}
C7_InRange == {m \in C7_Digits : ValueIn(Arg(m, "bright:"), 0, 255)}
C7_Above == C7_Digits \ C7_InRange
C7_ValueOf ==
  [m \in C7_InRange |->
     CHOOSE n \in 0..255 : HasValue(Arg(m, "bright:"), n)] @@ <<>>

\* C7: "bright:<d>", d a digit string with value n: if n <= 255 brightness
\* becomes n and the notification fires once; if n >= 256 brightness keeps
\* its prior value and no notification fires.
C7_BrightRange ==
  /\ (Handled /\ msg \in C7_InRange)
       => (brightness = C7_ValueOf[msg] /\ Notified(1))
  /\ (Handled /\ msg \in C7_Above)
       => (brightness = prior.brightness /\ Notified(0))

\* bright:256 refused while the brightness is 128
C7_Witness ==
  /\ msg = "bright:256"
  /\ prior.brightness = 128
  /\ brightness = 128

(***************************************************************************)
(* C8                                                                      *)
(***************************************************************************)
\* the messages "color:#h", h six hex digits, and the value 0xRRGGBB of h
C8_Colors ==
  {m \in Messages :
     /\ HasKeyword(m, "color:")
     /\ Len(Arg(m, "color:")) = 7
     /\ SubSeq(Arg(m, "color:"), 1, 1) = "#"
     /\ IsHex6(SubSeq(Arg(m, "color:"), 2, 7))}
C8_ValueOf ==
  [m \in C8_Colors |-> HexValue(SubSeq(Arg(m, "color:"), 2, 7))] @@ <<>>

\* C8: "color:#h", h six hex digits of any case, sets the colour of the
\* preset at the current index to the 24-bit value of h and notifies once.
C8_ColorSets ==
  (Handled /\ msg \in C8_Colors)
    => /\ currentPreset = prior.currentPreset
       /\ presets[currentPreset].color = C8_ValueOf[msg]
       /\ Notified(1)

\* a mixed-case colour stored in the last preset, the first one still black
C8_Witness ==
  /\ msg = "color:#aBcDeF"
  /\ currentPreset = NumPresets - 1
  /\ presets[NumPresets - 1].color = 11259375
  /\ presets[0].color = 0

(***************************************************************************)
(* C9                                                                      *)
(***************************************************************************)
\* the speed: messages whose digits denote a number n > 0, and the decimal
\* numeral of that n
C9_Positive ==
  {m \in Messages :
     /\ HasKeyword(m, "speed:")
     /\ AllDigits(Arg(m, "speed:"))
     /\ Canon(Arg(m, "speed:")) # "0"}
C9_NumeralOf == [m \in C9_Positive |-> Canon(Arg(m, "speed:"))] @@ <<>>

\* C9: "speed:<d>", d a digit string with value n > 0, sets animInterval to
\* n without a notification and changes nothing else.
C9_SpeedSets ==
  (Handled /\ msg \in C9_Positive)
    => /\ ToDecimal(animInterval) = C9_NumeralOf[msg]
       /\ Notified(0)
       /\ presets = prior.presets
       /\ currentPreset = prior.currentPreset
       /\ brightness = prior.brightness

\* the part of C9 the handler meets: the same for 0 < n <= INT_MAX
C9_InIntRange ==
  {m \in C9_Positive :
     \E n \in {1, 123, INT_MAX} : C9_NumeralOf[m] = ToDecimal(n)}
C9_SpeedSetsInIntRange ==
  (Handled /\ msg \in C9_InIntRange)
    => /\ ToDecimal(animInterval) = C9_NumeralOf[msg]
       /\ Notified(0)
       /\ presets = prior.presets
       /\ currentPreset = prior.currentPreset
       /\ brightness = prior.brightness
       /\ pc = "running"

(***************************************************************************)
(* C10                                                                     *)
(***************************************************************************)
\* the pixels a list of k valid tokens denotes: the token values, then zeros
C10_Pixels(toks) ==
  [i \in 0..(NUM_LEDS - 1) |->
     IF i < Len(toks) THEN HexValue(TokenHex(toks[i + 1])) ELSE 0]

\* the messages "leds:t1,...,tk", 1 <= k <= NUM_LEDS, every ti valid
C10_Lists ==
  {m \in Messages :
     /\ HasKeyword(m, "leds:")
     /\ Len(Split(Arg(m, "leds:"))) <= NUM_LEDS
     /\ \A i \in 1..Len(Split(Arg(m, "leds:"))) :
          ValidToken(Split(Arg(m, "leds:"))[i])}
C10_PixelsOf ==
  [m \in C10_Lists |-> C10_Pixels(Split(Arg(m, "leds:")))] @@ <<>>

\* C10: "leds:t1,...,tk", 1 <= k <= NUM_LEDS, every ti a valid colour: pixel
\* i-1 of the current preset becomes the value of ti, every pixel from k on
\* becomes 0, the sequence keeps NUM_LEDS pixels, one notification fires.
C10_LedsReplace ==
  (Handled /\ msg \in C10_Lists)
    => /\ currentPreset = prior.currentPreset
       /\ presets[currentPreset].leds = C10_PixelsOf[msg]
       /\ DOMAIN presets[currentPreset].leds = 0..(NUM_LEDS - 1)
       /\ Notified(1)

\* one token replaces a longer list: the pixels after it fall back to 0
C10_Witness ==
  /\ msg = "leds:FFFFFF"
  /\ prior.presets[prior.currentPreset].leds[1] # 0
  /\ presets[currentPreset].leds[0] = 16777215
  /\ presets[currentPreset].leds[1] = 0

(***************************************************************************)
(* C11                                                                     *)
(***************************************************************************)
\* the last k messages of the run were all m
LastWere(k, m) ==
  /\ Len(trail) >= k
  /\ \A j \in (Len(trail) - k + 1)..Len(trail) : trail[j].msg = m

\* C11: "next" moves currentPreset from i to (i + 1) mod N for every i, and
\* N times "next" in a row from index i lead back to i.
C11_NextCycles ==
  /\ (Handled /\ msg = "next")
       => currentPreset = (prior.currentPreset + 1) % NumPresets
  /\ LastWere(NumPresets, "next")
       => currentPreset = trail[Len(trail) - NumPresets + 1].index

\* N times next from index 1, through the wrap from N-1 to 0
C11_Witness ==
  /\ LastWere(NumPresets, "next")
  /\ trail[Len(trail) - NumPresets + 1].index = 1
  /\ prior.currentPreset = 0
  /\ currentPreset = 1

(***************************************************************************)
(* C12                                                                     *)
(***************************************************************************)
\* the last two messages of the run were a, then b
LastTwo(a, b) ==
  /\ Len(trail) >= 2
  /\ trail[Len(trail) - 1].msg = a
  /\ trail[Len(trail)].msg = b

\* C12: "prev" moves currentPreset from i to (i - 1 + N) mod N, from 0 to
\* N - 1 in particular; "prev" after "next" and "next" after "prev" restore
\* the index.
C12_PrevWraps ==
  /\ (Handled /\ msg = "prev")
       => /\ currentPreset = (prior.currentPreset - 1 + NumPresets) % NumPresets
          /\ prior.currentPreset = 0 => currentPreset = NumPresets - 1
  /\ (LastTwo("next", "prev") \/ LastTwo("prev", "next"))
       => currentPreset = trail[Len(trail) - 1].index

\* prev at index 0 reaches N-1, and the next after it is back at 0
C12_Witness ==
  /\ LastTwo("prev", "next")
  /\ trail[Len(trail) - 1].index = 0
  /\ prior.currentPreset = NumPresets - 1
  /\ currentPreset = 0

\* C15: after any sequence of messages from brightness 255 and animInterval
\* 50, brightness is in 0..255 and animInterval is greater than 0.
C15_Ranges ==
  /\ brightness >= 0 /\ brightness <= 255
  /\ animInterval > 0

\* the smallest interval and the smallest brightness were stored, and a
\* speed: message asking for zero came after them
C15_Witness ==
  /\ Handled /\ msg = "speed:0"
  /\ animInterval = 1 /\ brightness = 0

\* the last two messages handled were the same one
Repeated == Len(trail) >= 2 /\ trail[Len(trail) - 1].msg = trail[Len(trail)].msg

\* C16 as stated: every command is idempotent, handling the same message a
\* second time leaves index, brightness, interval, colors and pixels as the
\* first handling left them.
C16_AllIdempotent == Repeated => SameState

\* C16: set:, bright:, color:, speed: and leds: are idempotent, handling the
\* same message a second time leaves index, brightness, interval, colors and
\* pixels as the first handling left them; next and prev are not, the second
\* handling moves the index one further step.
C16_Idempotent ==
  /\ (Repeated /\ msg \notin {"next", "prev"}) => SameState
  /\ (Repeated /\ msg = "next")
       => currentPreset = (prior.currentPreset + 1) % NumPresets
  /\ (Repeated /\ msg = "prev")
       => currentPreset = (prior.currentPreset + NumPresets - 1) % NumPresets

\* leds: with three colors handled twice on preset 1
C16_Witness ==
  /\ Repeated /\ msg = "leds:#010203,#a0b0c0,#ffffff"
  /\ currentPreset = 1 /\ presets[1].leds[2] = 16777215
  /\ SameState

(***************************************************************************)
(* C18                                                                     *)
(***************************************************************************)
\* the tokens of a list that may end in one comma: the pieces between the
\* commas, without the empty piece after a final comma
C18_Tokens(a) ==
  LET p == Split(a)
  IN  IF Len(p) >= 2 /\ p[Len(p)] = "" THEN SubSeq(p, 1, Len(p) - 1) ELSE p

\* the argument is empty, or 1..NUM_LEDS valid tokens and at most one comma
\* after the last
C18_Acceptable(a) ==
  \/ a = ""
  \/ /\ Len(C18_Tokens(a)) >= 1
     /\ Len(C18_Tokens(a)) <= NUM_LEDS
     /\ \A i \in 1..Len(C18_Tokens(a)) : ValidToken(C18_Tokens(a)[i])

\* for every leds: message: whether it is to be accepted, and the pixels
C18_Of ==
  [m \in {x \in Messages : HasKeyword(x, "leds:")} |->
     LET a == Arg(m, "leds:")
     IN  [ok |-> C18_Acceptable(a),
          pixels |-> IF a # "" /\ C18_Acceptable(a) THEN C10_Pixels(C18_Tokens(a))
                     ELSE [i \in 0..(NUM_LEDS - 1) |-> 0]]] @@ <<>>

\* C18: a leds: message replaces the pixels of the current preset and fires
\* the notification if and only if its argument is empty or is 1..NUM_LEDS
\* valid tokens with at most one comma after the last; otherwise (more than
\* NUM_LEDS tokens, an empty token between commas, ...) the state is as it
\* was and nothing is notified; the bare "leds:" sets every pixel of the
\* current preset to 0 and notifies.
C18_LedsAccepts ==
  (Handled /\ HasKeyword(msg, "leds:"))
    => /\ Notified(1) <=> C18_Of[msg].ok
       /\ Notified(1) \/ Notified(0)
       /\ C18_Of[msg].ok
            => /\ presets = [prior.presets EXCEPT
                               ![prior.currentPreset].leds = C18_Of[msg].pixels]
               /\ currentPreset = prior.currentPreset
               /\ brightness = prior.brightness
               /\ animInterval = prior.animInterval
       /\ ~C18_Of[msg].ok => SameState
       /\ msg = "leds:" \o tokens("#0a0B0c", NUM_LEDS + 1) => SameState /\ Notified(0)
       /\ msg = "leds:#010203,,#a0b0c0" => SameState /\ Notified(0)
       /\ msg = "leds:"
            => /\ \A i \in 0..(NUM_LEDS - 1) : presets[currentPreset].leds[i] = 0
               /\ Notified(1)

\* one token more than there are pixels, on a preset with pixels set
C18_Witness ==
  /\ msg = "leds:" \o tokens("#0a0B0c", NUM_LEDS + 1)
  /\ prior.presets[prior.currentPreset].leds[0] = 16777215
  /\ SameState /\ Notified(0)

(***************************************************************************)
(* C19                                                                     *)
(***************************************************************************)
\* message j of the run was a color: or leds: message handled on preset p
PaintedAt(j, p) ==
  /\ HasKeyword(trail[j].msg, "color:") \/ HasKeyword(trail[j].msg, "leds:")
  /\ trail[j].index = p

\* C19: a command changes only its own target: next, prev and set: only
\* currentPreset; bright: only brightness; speed: only animInterval; color:
\* only the color of the preset current when it is handled; leds: only the
\* pixels of that preset.  A preset that was never current while a color: or
\* leds: message was handled still has color 0 and every pixel 0.
C19_Frame ==
  /\ (Handled /\ (msg \in {"next", "prev"} \/ HasKeyword(msg, "set:")))
       => /\ presets = prior.presets
          /\ brightness = prior.brightness
          /\ animInterval = prior.animInterval
  /\ (Handled /\ HasKeyword(msg, "bright:"))
       => /\ presets = prior.presets
          /\ currentPreset = prior.currentPreset
          /\ animInterval = prior.animInterval
  /\ (Handled /\ HasKeyword(msg, "speed:"))
       => /\ presets = prior.presets
          /\ currentPreset = prior.currentPreset
          /\ brightness = prior.brightness
  /\ (Handled /\ HasKeyword(msg, "color:"))
       => /\ presets = [prior.presets EXCEPT
                          ![prior.currentPreset].color = presets[prior.currentPreset].color]
          /\ currentPreset = prior.currentPreset
          /\ brightness = prior.brightness
          /\ animInterval = prior.animInterval
  /\ (Handled /\ HasKeyword(msg, "leds:"))
       => /\ presets = [prior.presets EXCEPT
                          ![prior.currentPreset].leds = presets[prior.currentPreset].leds]
          /\ currentPreset = prior.currentPreset
          /\ brightness = prior.brightness
          /\ animInterval = prior.animInterval
  /\ \A p \in 0..(NumPresets - 1) :
       (\A j \in 1..Len(trail) : ~PaintedAt(j, p))
         => /\ presets[p].color = 0
            /\ \A i \in 0..(NUM_LEDS - 1) : presets[p].leds[i] = 0

\* a color on preset 1 and a pixel on preset 2; preset 0 was never painted
C19_Witness ==
  /\ Len(trail) = 4
  /\ PaintedAt(2, 1) /\ PaintedAt(4, 2)
  /\ presets[1].color = 1122867 /\ presets[1].leds = Preset.leds
  /\ presets[2].color = 0 /\ presets[2].leds[0] = 16777215
  /\ presets[0] = Preset

(***************************************************************************)
(* The codecs.                                                             *)
(***************************************************************************)
\* the call that was made
CalledCStr == codec.fn = "cstr"
CalledString == codec.fn = "String"

\* s with its hex letters in lower case, in upper case
RECURSIVE Recase(_, _)
Recase(s, digits) ==
  IF s = "" THEN ""
  ELSE LET c == SubSeq(s, 1, 1)
       IN  (IF IsHexChar(c) THEN SubSeq(digits, HexDigit(c) + 1, HexDigit(c) + 1)
            ELSE c) \o Recase(SubSeq(s, 2, Len(s)), digits)

\* C13: parseHexColor(const char*, uint32_t&) called on a string of exactly
\* six hex digits returns true and stores 65536*R + 256*G + B, where R, G, B
\* are the bytes written by the digit pairs; the stored value is the one the
\* same digits give in lower case and in upper case, and is below 2^24.
C13_HexDecodes ==
  (CalledCStr /\ codec.arg # nullptr /\ IsHex6(codec.arg[1]))
    => /\ codec.ret = TRUE
       /\ codec.value = 65536 * HexByte(codec.arg[1], 1)
                          + 256 * HexByte(codec.arg[1], 3)
                          + HexByte(codec.arg[1], 5)
       /\ codec.value
            = parseHexColor(c_str(Recase(codec.arg[1], HexLower)), codec.before).value
       /\ codec.value
            = parseHexColor(c_str(Recase(codec.arg[1], HexUpper)), codec.before).value
       /\ codec.value >= 0 /\ codec.value < 256 * 65536

C13_Witness ==
  /\ CalledCStr /\ codec.arg = c_str("7b8C9d")
  /\ codec.ret = TRUE /\ codec.value = 65536 * 123 + 256 * 140 + 157

\* C14: parseHexColor(const char*, uint32_t&) returns false for a null
\* pointer, a string shorter than six characters, a string longer than six
\* characters and a string with a character that is no hex digit (a leading
\* '#' too), and then the caller's value is what it was before the call.
C14_Invalid(hex) ==
  \/ hex = nullptr
  \/ Len(hex[1]) < 6
  \/ Len(hex[1]) > 6
  \/ \E i \in 1..Len(hex[1]) : ~IsHexChar(SubSeq(hex[1], i, i))

C14_HexRejects ==
  (CalledCStr /\ C14_Invalid(codec.arg))
    => codec.ret = FALSE /\ codec.value = codec.before

C14_Witness ==
  /\ CalledCStr /\ codec.arg = c_str("0aF0aF0")
  /\ codec.before = 256 * 65536
  /\ codec.ret = FALSE /\ codec.value = codec.before

\* C17: parseHexColor(const String&, CRGB&) returns true exactly when the
\* input has length 7, begins with '#' and its other six characters are hex
\* digits; then out.r, out.g, out.b are the bytes written by characters
\* 1-2, 3-4 and 5-6.  "123456", "#12345" and "#ZZZZZZ" return false.
C17_WellFormed(input) ==
  /\ Len(input) = 7
  /\ SubSeq(input, 1, 1) = "#"
  /\ \A i \in 2..7 : IsHexChar(SubSeq(input, i, i))

C17_StringDecodes ==
  CalledString
    => /\ codec.ret = C17_WellFormed(codec.arg)
       /\ codec.ret => /\ codec.out.r = HexByte(codec.arg, 2)
                       /\ codec.out.g = HexByte(codec.arg, 4)
                       /\ codec.out.b = HexByte(codec.arg, 6)
       /\ codec.arg \in {"123456", "#12345", "#ZZZZZZ"} => codec.ret = FALSE

C17_Witness ==
  /\ CalledString /\ codec.arg = "#1A2B3C"
  /\ codec.ret = TRUE /\ codec.out = CRGB(26, 43, 60)

====
